---- MODULE Spec2Model ----
(***************************************************************************)
(* A model of packages/mcp/src/utils/cache.ts: the process-wide Cache      *)
(* singleton, its mutex-guarded safeGet / safeSet / safeUpdate and the     *)
(* per-session tool operations built on them.                              *)
(*                                                                         *)
(* JavaScript objects have identity, so Maps and arrays live in two heaps  *)
(* (maps, arrs) and are named by their index; 0 is "no object".  A Map     *)
(* <string, ToolInfo[]> is a function from session id to an array id, 0    *)
(* for a key the Map does not hold.  Every `new Map(..)`, `[]` and         *)
(* `[...x]` of the source allocates.                                       *)
(*                                                                         *)
(* Calls are numbered in the order they are issued.  A call runs in the    *)
(* steps the event loop can interleave with other tasks:                   *)
(*   Issue    the synchronous part of the async function up to the await   *)
(*            inside Mutex.lock (resolve the id, getInstance, join the     *)
(*            gate's queue)                                                *)
(*   Acquire  the gate is granted                                          *)
(*   Body     the callback handed to Mutex.lock runs, synchronously        *)
(*   Release  Mutex.lock's finally releases the gate                       *)
(*   Resume   the caller's continuation after the await                    *)
(***************************************************************************)
EXTENDS Integers, Sequences, FiniteSets, TLC

\* The number of calls issued in one run.
MaxCalls == 2
\* The number of times the callers of SpecMutate mutate an array a call
\* returned to them.
MaxMutations == 1
\* The number of concurrent appending calls of SpecAppend.
MaxAppends == 3

\* The number of calls one caller makes one after the other in SpecSequential.
MaxSequence == 3

DEFAULT_TOOL_SESSION_ID == "default"

\* The absent argument of `sessionId?: string`.
Undefined == "<undefined>"

\* The session arguments of the operations that read (getToolsForSession) and
\* of those that write; "a" is written only by a direct safeSet.
SessionArgs == {Undefined, "", "a"}
WriteArgs == {Undefined, ""}
SessionIds == {DEFAULT_TOOL_SESSION_ID, "", "a"}
Keys == {"allowedOrgs", "tools"}
Org == "org1"

\* Tool descriptors are opaque: the one call n's updateFn adds, the one an
\* earlier call left in the cache, and the one a caller writes into an array
\* it was handed.
Descriptor(n) == <<"tool", n>>
EarlierItem == <<"earlier", 0>>
CallerItem == <<"caller", 0>>

VARIABLES
    instance,      \* Cache.instance: 0 (undefined) or the id of the instance
    constructed,   \* how many times the constructor has run
    allowedOrgs,   \* the instance's 'allowedOrgs' entry
    tools,         \* the instance's 'tools' entry: a map id
    maps,          \* the heap of Map objects
    arrs,          \* the heap of arrays
    mutexQueue,    \* calls waiting for Cache.mutex, in arrival order
    mutexHolder,   \* the call holding Cache.mutex, 0 when it is free
    calls,         \* the calls issued so far, in issue order
    executed,      \* the calls whose body has run, in the order they ran
    got,           \* the instances getInstance() has returned
    mutations      \* caller mutations done so far

vars == <<instance, constructed, allowedOrgs, tools, maps, arrs,
          mutexQueue, mutexHolder, calls, executed, got, mutations>>

\* The process's heap and static fields, as one value the operators below
\* transform.
Store == [instance |-> instance, constructed |-> constructed,
          allowedOrgs |-> allowedOrgs, tools |-> tools,
          maps |-> maps, arrs |-> arrs]

NoSessions == [s \in SessionIds |-> 0]

\* `[]`, `[...x]`: a new array holding s; its id is Len(arrs) of the result.
NewArray(h, s) == [h EXCEPT !.arrs = Append(@, s)]

\* `new Map(..)`: a new Map holding m; its id is Len(maps) of the result.
NewMap(h, m) == [h EXCEPT !.maps = Append(@, m)]

-----------------------------------------------------------------------------
\* initialize without the default session: 'tools' is a new, empty Map.
initializeNoDefault(h) ==
    LET h2 == NewMap(h, NoSessions)
    IN  [h2 EXCEPT !.allowedOrgs = {}, !.tools = Len(h2.maps)]

\* private initialize(): 'allowedOrgs' is a new empty Set, 'tools' a new Map
\* holding the default session with a new empty array.
initialize(h) ==
    LET h1 == NewArray(h, <<>>)
        h2 == NewMap(h1, [NoSessions EXCEPT ![DEFAULT_TOOL_SESSION_ID] = Len(h1.arrs)])
    IN  [h2 EXCEPT !.allowedOrgs = {}, !.tools = Len(h2.maps)]

\* private constructor(): super(); this.initialize().
construct(h) ==
    initialize([h EXCEPT !.constructed = @ + 1, !.instance = h.constructed + 1])

\* getInstance with `=` for `??=`: every call constructs.
getInstanceAlways(h) == construct(h)

\* getInstance(): Cache.instance ??= new Cache().
getInstance(h) == IF h.instance = 0 THEN construct(h) ELSE h

\* resolveToolSessionId with `||` for `??`: the empty string is replaced too.
resolveToolSessionIdOr(sessionId) ==
    IF sessionId \in {Undefined, ""} THEN DEFAULT_TOOL_SESSION_ID ELSE sessionId

\* resolveToolSessionId(sessionId?): sessionId ?? DEFAULT_TOOL_SESSION_ID.
\* `??` replaces only undefined (and null): the empty string is kept.
resolveToolSessionId(sessionId) ==
    IF sessionId = Undefined THEN DEFAULT_TOOL_SESSION_ID ELSE sessionId

-----------------------------------------------------------------------------
(* The update functions.  Each takes the store and its argument and yields *)
(* [h: the store after it ran, threw: whether it threw, value: what it     *)
(* returned].                                                              *)

Returned(h, v) == [h |-> h, threw |-> FALSE, value |-> v]
Threw(h) == [h |-> h, threw |-> TRUE, value |-> 0]

\* The caller's updateFn of updateToolsForSession, applied to array a.
\*   append      tools => [...tools, item]
\*   pushThrow   tools => { tools.push(item); throw .. }
ToolFns == {"append", "pushThrow"}

applyToolFn(h, fn, a, item) ==
    CASE fn = "append" ->
            LET h1 == NewArray(h, Append(h.arrs[a], item))
            IN  Returned(h1, Len(h1.arrs))
      [] OTHER -> Threw([h EXCEPT !.arrs[a] = Append(@, item)])

\* ensureFn without the `toolMap.has(sessionId)` test: it always stores a new
\* empty array.
ensureFnAlways(h, toolMap, sid) ==
    LET h1 == NewMap(h, h.maps[toolMap])
        updated == Len(h1.maps)
        h2 == NewArray(h1, <<>>)
    IN  Returned([h2 EXCEPT !.maps[updated][sid] = Len(h2.arrs)], updated)

\* The callback of ensureToolSession, lines 109-117.
ensureFn(h, toolMap, sid) ==
    IF h.maps[toolMap][sid] # 0
    THEN Returned(h, toolMap)
    ELSE LET h1 == NewMap(h, h.maps[toolMap])
             updated == Len(h1.maps)
             h2 == NewArray(h1, <<>>)
         IN  Returned([h2 EXCEPT !.maps[updated][sid] = Len(h2.arrs)], updated)

\* resetFn that keeps an entry the session has: it stores [] only for a
\* session that has none.
resetFnIfAbsent(h, toolMap, sid) ==
    IF h.maps[toolMap][sid] # 0
    THEN Returned(h, toolMap)
    ELSE LET h1 == NewMap(h, h.maps[toolMap])
             updated == Len(h1.maps)
             h2 == NewArray(h1, <<>>)
         IN  Returned([h2 EXCEPT !.maps[updated][sid] = Len(h2.arrs)], updated)

\* resetFn writing into the Map it was given: toolMap.set(sid, []).
resetFnInPlace(h, toolMap, sid) ==
    LET h1 == NewArray(h, <<>>)
    IN  Returned([h1 EXCEPT !.maps[toolMap][sid] = Len(h1.arrs)], toolMap)

\* The callback of resetToolsForSession, lines 122-126.
resetFn(h, toolMap, sid) ==
    LET h1 == NewMap(h, h.maps[toolMap])
        updated == Len(h1.maps)
        h2 == NewArray(h1, <<>>)
    IN  Returned([h2 EXCEPT !.maps[updated][sid] = Len(h2.arrs)], updated)

\* deleteFn that returns a new, empty Map: it removes every session.
deleteFnClears(h, toolMap, sid) ==
    LET h1 == NewMap(h, NoSessions)
    IN  Returned(h1, Len(h1.maps))

\* deleteFn that removes nothing: it returns the Map it was given.
deleteFnKeeps(h, toolMap, sid) == Returned(h, toolMap)

\* The callback of deleteToolSession, lines 131-139.
deleteFn(h, toolMap, sid) ==
    IF h.maps[toolMap][sid] = 0
    THEN Returned(h, toolMap)
    ELSE LET h1 == NewMap(h, h.maps[toolMap])
             updated == Len(h1.maps)
         IN  Returned([h1 EXCEPT !.maps[updated][sid] = 0], updated)

\* updateToolsFn that hands updateFn an empty array whatever the session
\* holds: updateFn([]).
updateToolsFnFromEmpty(h, toolMap, sid, fn, item) ==
    LET hC == NewArray(h, <<>>)
        r == applyToolFn(hC, fn, Len(hC.arrs), item)
    IN  IF r.threw
        THEN [h |-> r.h, threw |-> TRUE, value |-> <<0, 0>>]
        ELSE LET h1 == NewMap(r.h, r.h.maps[toolMap])
                 updatedMap == Len(h1.maps)
             IN  [h |-> [h1 EXCEPT !.maps[updatedMap][sid] = r.value],
                  threw |-> FALSE,
                  value |-> <<updatedMap, r.value>>]

\* updateToolsFn without the defensive copy: updateFn(existingTools).
updateToolsFnNoCopy(h, toolMap, sid, fn, item) ==
    LET hE == IF h.maps[toolMap][sid] # 0 THEN h ELSE NewArray(h, <<>>)
        existingTools == IF h.maps[toolMap][sid] # 0
                         THEN h.maps[toolMap][sid] ELSE Len(hE.arrs)
        r == applyToolFn(hE, fn, existingTools, item)
    IN  IF r.threw
        THEN [h |-> r.h, threw |-> TRUE, value |-> <<0, 0>>]
        ELSE LET h1 == NewMap(r.h, r.h.maps[toolMap])
                 updatedMap == Len(h1.maps)
             IN  [h |-> [h1 EXCEPT !.maps[updatedMap][sid] = r.value],
                  threw |-> FALSE,
                  value |-> <<updatedMap, r.value>>]

\* updateToolsFn with a lost update: it works on the Map the cache held at
\* first, not on the one safeUpdate read under the gate.
updateToolsFnStale(h, toolMap, sid, fn, item) ==
    LET stale == 1
        hE == IF h.maps[stale][sid] # 0 THEN h ELSE NewArray(h, <<>>)
        existingTools == IF h.maps[stale][sid] # 0
                         THEN h.maps[stale][sid] ELSE Len(hE.arrs)
        hC == NewArray(hE, hE.arrs[existingTools])
        r == applyToolFn(hC, fn, Len(hC.arrs), item)
    IN  IF r.threw
        THEN [h |-> r.h, threw |-> TRUE, value |-> <<0, 0>>]
        ELSE LET h1 == NewMap(r.h, r.h.maps[stale])
                 updatedMap == Len(h1.maps)
             IN  [h |-> [h1 EXCEPT !.maps[updatedMap][sid] = r.value],
                  threw |-> FALSE,
                  value |-> <<updatedMap, r.value>>]

\* The callback of updateToolsForSession, lines 156-162.  Its value is the
\* pair <<updatedMap, updatedTools>>: the Map it returns to safeUpdate and the
\* array it assigns to the enclosing function's updatedTools.
updateToolsFn(h, toolMap, sid, fn, item) ==
    LET hE == IF h.maps[toolMap][sid] # 0 THEN h ELSE NewArray(h, <<>>)
        existingTools == IF h.maps[toolMap][sid] # 0
                         THEN h.maps[toolMap][sid] ELSE Len(hE.arrs)
        hC == NewArray(hE, hE.arrs[existingTools])
        r == applyToolFn(hC, fn, Len(hC.arrs), item)
    IN  IF r.threw
        THEN [h |-> r.h, threw |-> TRUE, value |-> <<0, 0>>]
        ELSE LET h1 == NewMap(r.h, r.h.maps[toolMap])
                 updatedMap == Len(h1.maps)
             IN  [h |-> [h1 EXCEPT !.maps[updatedMap][sid] = r.value],
                  threw |-> FALSE,
                  value |-> <<updatedMap, r.value>>]


\* A caller's updateFn of a direct safeUpdate('allowedOrgs', ..).
\*   add    orgs => new Set([...orgs, Org])
\*   throw  orgs => { throw .. }
orgsFn(h, fn, currentValue) ==
    IF fn = "add" THEN Returned(h, currentValue \cup {Org}) ELSE Threw(h)

\* The updateFn a call hands to safeUpdate('tools', ..): the callback of the
\* session operation, or the caller's own (which here throws).
toolsFn(h, c, currentValue) ==
    CASE c.kind = "ensureToolSession" ->
            LET r == ensureFn(h, currentValue, c.resolved)
            IN  [r EXCEPT !.value = <<r.value, 0>>]
      [] c.kind = "resetToolsForSession" ->
            LET r == resetFn(h, currentValue, c.resolved)
            IN  [r EXCEPT !.value = <<r.value, 0>>]
      [] c.kind = "deleteToolSession" ->
            LET r == deleteFn(h, currentValue, c.resolved)
            IN  [r EXCEPT !.value = <<r.value, 0>>]
      [] c.kind = "updateToolsForSession" ->
            updateToolsFn(h, currentValue, c.resolved, c.fn, c.item)
      [] OTHER -> [h |-> h, threw |-> TRUE, value |-> <<0, 0>>]

-----------------------------------------------------------------------------
(* The callbacks handed to Cache.mutex.lock.  Each yields the store after  *)
(* it ran and what the call now holds: threw, the value the lock's promise *)
(* settles with (retOrgs or retMap, by key) and updatedTools.              *)

Outcome(h, c, threw, retOrgs, retMap, updatedTools) ==
    [h |-> h,
     c |-> [c EXCEPT !.threw = threw, !.retOrgs = retOrgs, !.retMap = retMap,
                     !.updatedTools = updatedTools]]

\* safeUpdate, lines 66-71: read, apply updateFn, write, return the new value.
\* A throwing updateFn leaves the callback before cache.set.
safeUpdateBody(h, c) ==
    IF c.key = "allowedOrgs"
    THEN LET r == orgsFn(h, c.fn, h.allowedOrgs)
         IN  IF r.threw
             THEN Outcome(r.h, c, TRUE, {}, 0, c.updatedTools)
             ELSE Outcome([r.h EXCEPT !.allowedOrgs = r.value], c, FALSE,
                          r.value, 0, c.updatedTools)
    ELSE LET r == toolsFn(h, c, h.tools)
         IN  IF r.threw
             THEN Outcome(r.h, c, TRUE, {}, 0, c.updatedTools)
             ELSE Outcome([r.h EXCEPT !.tools = r.value[1]], c, FALSE, {},
                          r.value[1],
                          IF c.kind = "updateToolsForSession"
                          THEN r.value[2] ELSE c.updatedTools)

\* safeGet, line 80: () => cache.get(key).
safeGetBody(h, c) ==
    IF c.key = "allowedOrgs"
    THEN Outcome(h, c, FALSE, h.allowedOrgs, 0, c.updatedTools)
    ELSE Outcome(h, c, FALSE, {}, h.tools, c.updatedTools)

\* safeSet whose callback does not write: () => {}.
safeSetBodyDropped(h, c) == Outcome(h, c, FALSE, {}, 0, c.updatedTools)

\* safeSet, lines 89-91: () => { cache.set(key, value) }.
safeSetBody(h, c) ==
    IF c.key = "allowedOrgs"
    THEN Outcome([h EXCEPT !.allowedOrgs = c.argOrgs], c, FALSE, {}, 0, c.updatedTools)
    ELSE Outcome([h EXCEPT !.tools = c.argMap], c, FALSE, {}, 0, c.updatedTools)

\* Whether the call goes through safeUpdate.
UsesSafeUpdate(kind) ==
    kind \in {"safeUpdate", "ensureToolSession", "resetToolsForSession",
              "deleteToolSession", "updateToolsForSession"}

\* Whether the call goes through safeGet.
UsesSafeGet(kind) == kind \in {"safeGet", "getToolsForSession"}

body(h, c) ==
    CASE UsesSafeUpdate(c.kind) -> safeUpdateBody(h, c)
      [] UsesSafeGet(c.kind) -> safeGetBody(h, c)
      [] OTHER -> safeSetBody(h, c)

-----------------------------------------------------------------------------
(* The calls a run may issue.                                              *)

WriteKinds == {"ensureToolSession", "resetToolsForSession", "deleteToolSession"}
SessionKinds == WriteKinds \cup {"getToolsForSession"}

Ops ==
    [kind : {"safeGet", "safeSet"}, key : Keys, sid : {Undefined}, fn : {"-"}]
    \cup [kind : {"safeUpdate"}, key : {"allowedOrgs"}, sid : {Undefined},
          fn : {"add", "throw"}]
    \cup [kind : WriteKinds, key : {"tools"}, sid : WriteArgs, fn : {"-"}]
    \cup [kind : {"getToolsForSession"}, key : {"tools"}, sid : SessionArgs,
          fn : {"-"}]
    \cup [kind : {"updateToolsForSession"}, key : {"tools"}, sid : WriteArgs,
          fn : ToolFns]

\* The call as it stands before its first statement; item is the descriptor
\* its updateFn adds, distinct for every call.
NewCall(op, n) ==
    [kind |-> op.kind, key |-> op.key, sid |-> op.sid, fn |-> op.fn,
     item |-> Descriptor(n),
     resolved |-> "-", cache |-> 0, argOrgs |-> {}, argMap |-> 0,
     updatedTools |-> 0, threw |-> FALSE, retOrgs |-> {}, retMap |-> 0,
     retArr |-> 0, pc |-> "start", status |-> "pending"]

\* The arguments the caller builds for safeSet: new Set([Org]), or
\* new Map([["a", []]]).
withArguments(h, c) ==
    IF c.kind # "safeSet" THEN [h |-> h, c |-> c]
    ELSE IF c.key = "allowedOrgs" THEN [h |-> h, c |-> [c EXCEPT !.argOrgs = {Org}]]
    ELSE LET h1 == NewArray(h, <<>>)
             h2 == NewMap(h1, [NoSessions EXCEPT !["a"] = Len(h1.arrs)])
         IN  [h |-> h2, c |-> [c EXCEPT !.argMap = Len(h2.maps)]]

\* The statements of a session operation before its call of safeGet or
\* safeUpdate: resolve the session id, and for updateToolsForSession line 154,
\* `let updatedTools = []`.
withSessionPrologue(h, c) ==
    IF c.kind \in SessionKinds
    THEN [h |-> h, c |-> [c EXCEPT !.resolved = resolveToolSessionId(c.sid)]]
    ELSE IF c.kind = "updateToolsForSession"
    THEN LET h1 == NewArray(h, <<>>)
         IN  [h |-> h1,
              c |-> [c EXCEPT !.resolved = resolveToolSessionId(c.sid),
                              !.updatedTools = Len(h1.arrs)]]
    ELSE [h |-> h, c |-> c]

\* The first statement of safeGet, safeSet and safeUpdate:
\* const cache = Cache.getInstance().
withInstance(h, c) ==
    LET h1 == getInstance(h)
    IN  [h |-> h1, c |-> [c EXCEPT !.cache = h1.instance]]

\* The synchronous part of a call, up to the await inside Mutex.lock.  The
\* ids of the heap are names only, so the objects of the instance are named
\* first, although the caller built its arguments before getInstance() ran:
\* the same objects then have the same names whoever called getInstance()
\* first.
issue(h, op, n) ==
    LET a == withInstance(h, NewCall(op, n))
        b == withArguments(a.h, a.c)
    IN  withSessionPrologue(b.h, b.c)

\* resume with getToolsForSession returning the stored array: `return tools`.
resumeNoCopy(h, c) ==
    IF c.threw
    THEN [h |-> h, c |-> [c EXCEPT !.status = "rejected", !.pc = "done"]]
    ELSE IF c.kind = "getToolsForSession"
    THEN LET hE == IF h.maps[c.retMap][c.resolved] # 0 THEN h ELSE NewArray(h, <<>>)
             tools_ == IF h.maps[c.retMap][c.resolved] # 0
                       THEN h.maps[c.retMap][c.resolved] ELSE Len(hE.arrs)
         IN  [h |-> hE,
              c |-> [c EXCEPT !.retArr = tools_, !.status = "fulfilled",
                              !.pc = "done"]]
    ELSE IF c.kind = "updateToolsForSession"
    THEN [h |-> h,
          c |-> [c EXCEPT !.retArr = c.updatedTools, !.status = "fulfilled",
                          !.pc = "done"]]
    ELSE [h |-> h, c |-> [c EXCEPT !.status = "fulfilled", !.pc = "done"]]

\* resume with getToolsForSession storing the default it made for a session
\* the Map does not hold: toolMap.set(resolvedSessionId, tools).
resumeCreates(h, c) ==
    IF c.threw
    THEN [h |-> h, c |-> [c EXCEPT !.status = "rejected", !.pc = "done"]]
    ELSE IF c.kind = "getToolsForSession"
    THEN LET hE == IF h.maps[c.retMap][c.resolved] # 0 THEN h
                   ELSE LET h1 == NewArray(h, <<>>)
                        IN  [h1 EXCEPT !.maps[c.retMap][c.resolved] = Len(h1.arrs)]
             tools_ == hE.maps[c.retMap][c.resolved]
             hC == NewArray(hE, hE.arrs[tools_])
         IN  [h |-> hC,
              c |-> [c EXCEPT !.retArr = Len(hC.arrs), !.status = "fulfilled",
                              !.pc = "done"]]
    ELSE IF c.kind = "updateToolsForSession"
    THEN [h |-> h,
          c |-> [c EXCEPT !.retArr = c.updatedTools, !.status = "fulfilled",
                          !.pc = "done"]]
    ELSE [h |-> h, c |-> [c EXCEPT !.status = "fulfilled", !.pc = "done"]]

\* resume with getToolsForSession looking the session up in the Map the cache
\* holds when the continuation runs, not in the Map safeGet returned.
resumeReadsCache(h, c) ==
    IF c.threw
    THEN [h |-> h, c |-> [c EXCEPT !.status = "rejected", !.pc = "done"]]
    ELSE IF c.kind = "getToolsForSession"
    THEN LET hE == IF h.maps[h.tools][c.resolved] # 0 THEN h ELSE NewArray(h, <<>>)
             tools_ == IF h.maps[h.tools][c.resolved] # 0
                       THEN h.maps[h.tools][c.resolved] ELSE Len(hE.arrs)
             hC == NewArray(hE, hE.arrs[tools_])
         IN  [h |-> hC,
              c |-> [c EXCEPT !.retArr = Len(hC.arrs), !.status = "fulfilled",
                              !.pc = "done"]]
    ELSE IF c.kind = "updateToolsForSession"
    THEN [h |-> h,
          c |-> [c EXCEPT !.retArr = c.updatedTools, !.status = "fulfilled",
                          !.pc = "done"]]
    ELSE [h |-> h, c |-> [c EXCEPT !.status = "fulfilled", !.pc = "done"]]

\* The continuation of the caller after the await.  getToolsForSession, lines
\* 145-146: look the session up in the Map safeGet returned and copy the
\* array; updateToolsForSession, line 164: return updatedTools.  A rejected
\* safeUpdate rejects the operation that awaited it.
resume(h, c) ==
    IF c.threw
    THEN [h |-> h, c |-> [c EXCEPT !.status = "rejected", !.pc = "done"]]
    ELSE IF c.kind = "getToolsForSession"
    THEN LET hE == IF h.maps[c.retMap][c.resolved] # 0 THEN h ELSE NewArray(h, <<>>)
             tools_ == IF h.maps[c.retMap][c.resolved] # 0
                       THEN h.maps[c.retMap][c.resolved] ELSE Len(hE.arrs)
             hC == NewArray(hE, hE.arrs[tools_])
         IN  [h |-> hC,
              c |-> [c EXCEPT !.retArr = Len(hC.arrs), !.status = "fulfilled",
                              !.pc = "done"]]
    ELSE IF c.kind = "updateToolsForSession"
    THEN [h |-> h,
          c |-> [c EXCEPT !.retArr = c.updatedTools, !.status = "fulfilled",
                          !.pc = "done"]]
    ELSE [h |-> h, c |-> [c EXCEPT !.status = "fulfilled", !.pc = "done"]]

-----------------------------------------------------------------------------
(* Cache.mutex, the Mutex of @salesforce/core: lock(fn) queues the caller, *)
(* grants the gate in arrival order, runs fn and releases the gate in a    *)
(* finally block, whether fn returned or threw.                            *)

\* A gate that forgets a caller that arrives while others wait.
lockEnqueueLoses(queue, n) == IF queue = <<>> THEN <<n>> ELSE queue

lockEnqueue(queue, n) == Append(queue, n)

\* A gate that serves the latest arrival first.
lockNextLast(queue) == queue[Len(queue)]

\* The call the gate is granted to next.
lockNext(queue) == Head(queue)

\* A lock without the finally: a callback that threw keeps the gate.
lockReleaseNoFinally(holder, n, threw) == IF threw THEN holder ELSE 0

\* The holder after lock's finally block ran for call n.
lockRelease(holder, n, threw) == 0

-----------------------------------------------------------------------------
SetStore(h) ==
    /\ instance' = h.instance
    /\ constructed' = h.constructed
    /\ allowedOrgs' = h.allowedOrgs
    /\ tools' = h.tools
    /\ maps' = h.maps
    /\ arrs' = h.arrs

\* The store before the first getInstance().
Fresh ==
    [instance |-> 0, constructed |-> 0, allowedOrgs |-> {}, tools |-> 0,
     maps |-> <<>>, arrs |-> <<>>]

\* The store an earlier, settled updateToolsForSession(undefined,
\* tools => [...tools, EarlierItem]) leaves behind.
Used ==
    body(getInstance(Fresh),
         [NewCall([kind |-> "updateToolsForSession", key |-> "tools",
                   sid |-> Undefined, fn |-> "append"], 0)
          EXCEPT !.resolved = DEFAULT_TOOL_SESSION_ID, !.item = EarlierItem]).h

Init ==
    /\ \E h \in {Fresh, Used} :
          /\ instance = h.instance
          /\ constructed = h.constructed
          /\ allowedOrgs = h.allowedOrgs
          /\ tools = h.tools
          /\ maps = h.maps
          /\ arrs = h.arrs
          /\ got = IF h.instance = 0 THEN {} ELSE {h.instance}
    /\ mutexQueue = <<>>
    /\ mutexHolder = 0
    /\ calls = <<>>
    /\ executed = <<>>
    /\ mutations = 0

\* A caller calls Cache.getInstance() itself.
GetInstance ==
    LET h == getInstance(Store)
    IN  /\ SetStore(h)
        /\ got' = got \cup {h.instance}
        /\ UNCHANGED <<mutexQueue, mutexHolder, calls, executed, mutations>>

\* A call runs up to its await and joins the gate's queue.
Start(op) ==
    /\ LET n == Len(calls) + 1
           r == issue(Store, op, n)
       IN  /\ SetStore(r.h)
           /\ calls' = Append(calls, [r.c EXCEPT !.pc = "waiting"])
           /\ mutexQueue' = lockEnqueue(mutexQueue, n)
           /\ got' = got \cup {r.c.cache}
    /\ UNCHANGED <<mutexHolder, executed, mutations>>

\* A caller starts one of the asynchronous operations.
Issue(op) ==
    /\ Len(calls) < MaxCalls
    /\ Start(op)

\* A caller starts updateToolsForSession(sid, tools => [...tools, item]) on
\* the session the earlier calls of the run are on.
IssueAppend(sid) ==
    /\ Len(calls) < MaxAppends
    /\ calls # <<>> => calls[1].sid = sid
    /\ Start([kind |-> "updateToolsForSession", key |-> "tools", sid |-> sid,
              fn |-> "append"])

\* A gate granted to the next call in the queue although another holds it.
AcquireHeld(n) ==
    /\ mutexQueue # <<>>
    /\ n = lockNext(mutexQueue)
    /\ calls[n].pc = "waiting"
    /\ mutexHolder' = n
    /\ mutexQueue' = SelectSeq(mutexQueue, LAMBDA m : m # n)
    /\ calls' = [calls EXCEPT ![n].pc = "locked"]
    /\ UNCHANGED <<instance, constructed, allowedOrgs, tools, maps, arrs,
                   executed, got, mutations>>

\* The gate is free and granted to the next call in the queue.
Acquire(n) ==
    /\ mutexHolder = 0
    /\ mutexQueue # <<>>
    /\ n = lockNext(mutexQueue)
    /\ calls[n].pc = "waiting"
    /\ mutexHolder' = n
    /\ mutexQueue' = SelectSeq(mutexQueue, LAMBDA m : m # n)
    /\ calls' = [calls EXCEPT ![n].pc = "locked"]
    /\ UNCHANGED <<instance, constructed, allowedOrgs, tools, maps, arrs,
                   executed, got, mutations>>

\* The holder's callback runs to its end, or to its throw.
Body(n) ==
    /\ calls[n].pc = "locked"
    /\ LET r == body(Store, calls[n])
       IN  /\ SetStore(r.h)
           /\ calls' = [calls EXCEPT ![n] = [r.c EXCEPT !.pc = "ran"]]
    /\ executed' = Append(executed, n)
    /\ UNCHANGED <<mutexQueue, mutexHolder, got, mutations>>

\* Mutex.lock's finally block.
Release(n) ==
    /\ calls[n].pc = "ran"
    /\ mutexHolder' = lockRelease(mutexHolder, n, calls[n].threw)
    /\ calls' = [calls EXCEPT ![n].pc = "released"]
    /\ UNCHANGED <<instance, constructed, allowedOrgs, tools, maps, arrs,
                   mutexQueue, executed, got, mutations>>

\* The caller's continuation runs and the operation settles.
Resume(n) ==
    /\ calls[n].pc = "released"
    /\ LET r == resume(Store, calls[n])
       IN  /\ SetStore(r.h)
           /\ calls' = [calls EXCEPT ![n] = r.c]
    /\ UNCHANGED <<mutexQueue, mutexHolder, executed, got, mutations>>

\* What a caller may do to an array it holds: push, pop, or assign slot 0.
mutate(s, how) ==
    CASE how = "push" -> Append(s, CallerItem)
      [] how = "pop" -> SubSeq(s, 1, Len(s) - 1)
      [] OTHER -> [s EXCEPT ![1] = CallerItem]

\* The caller of a settled getToolsForSession or updateToolsForSession
\* mutates the array the operation returned.
Mutate(n, how) ==
    /\ mutations < MaxMutations
    /\ calls[n].pc = "done"
    /\ calls[n].retArr # 0
    /\ how = "push" \/ arrs[calls[n].retArr] # <<>>
    /\ arrs' = [arrs EXCEPT ![calls[n].retArr] = mutate(@, how)]
    /\ mutations' = mutations + 1
    /\ UNCHANGED <<instance, constructed, allowedOrgs, tools, maps,
                   mutexQueue, mutexHolder, calls, executed, got>>

Next ==
    \/ GetInstance
    \/ \E op \in Ops : Issue(op)
    \/ \E n \in 1..Len(calls) : Acquire(n)
    \/ \E n \in 1..Len(calls) : Body(n)
    \/ \E n \in 1..Len(calls) : Release(n)
    \/ \E n \in 1..Len(calls) : Resume(n)

\* The cache used as its contract asks: callers leave what they were handed
\* as it is.
Spec == Init /\ [][Next]_vars

\* Runs of the operations that hand an array to their caller, with callers
\* that mutate the array they were handed.
ArrayOps == {op \in Ops : op.kind \in {"getToolsForSession", "updateToolsForSession"}}

IssueArrayOp(op) ==
    /\ Len(calls) < MaxCalls
    /\ Start(op)

NextMutate ==
    \/ \E op \in ArrayOps : IssueArrayOp(op)
    \/ \E n \in 1..Len(calls) : Acquire(n)
    \/ \E n \in 1..Len(calls) : Body(n)
    \/ \E n \in 1..Len(calls) : Release(n)
    \/ \E n \in 1..Len(calls) : Resume(n)
    \/ \E n \in 1..Len(calls), how \in {"push", "pop", "set"} : Mutate(n, how)

SpecMutate == Init /\ [][NextMutate]_vars

\* The operations on sessions.
SessionOps == {op \in Ops : op.kind \in SessionKinds \cup {"updateToolsForSession"}}

\* A caller that awaits every call before it makes the next:
\* await Cache.x(..); await Cache.y(..); ..
IssueNext(op) ==
    /\ Len(calls) < MaxSequence
    /\ \A n \in 1..Len(calls) : calls[n].pc = "done"
    /\ Start(op)

NextSequential ==
    \/ \E op \in SessionOps : IssueNext(op)
    \/ \E n \in 1..Len(calls) : Acquire(n)
    \/ \E n \in 1..Len(calls) : Body(n)
    \/ \E n \in 1..Len(calls) : Release(n)
    \/ \E n \in 1..Len(calls) : Resume(n)

SpecSequential == Init /\ [][NextSequential]_vars

\* Runs in which nothing happens but concurrent appending calls on one session.
NextAppend ==
    \/ \E sid \in WriteArgs : IssueAppend(sid)
    \/ \E n \in 1..Len(calls) : Acquire(n)
    \/ \E n \in 1..Len(calls) : Body(n)
    \/ \E n \in 1..Len(calls) : Release(n)
    \/ \E n \in 1..Len(calls) : Resume(n)

SpecAppend == Init /\ [][NextAppend]_vars

\* The event loop runs every task that is ready: a call that can take its
\* next step is not left waiting for ever.  Callers need not issue calls.
Progress ==
    \E n \in 1..Len(calls) : Acquire(n) \/ Body(n) \/ Release(n) \/ Resume(n)

\* Runs of updates whose updateFn may throw, and of reads queued among them.
UpdateOps ==
    {op \in Ops : \/ op.kind \in {"safeUpdate", "updateToolsForSession"}
                  \/ op.kind = "safeGet" /\ op.key = "tools"}

IssueUpdate(op) ==
    /\ Len(calls) < MaxCalls
    /\ Start(op)

NextUpdate ==
    \/ \E op \in UpdateOps : IssueUpdate(op)
    \/ \E n \in 1..Len(calls) : Acquire(n)
    \/ \E n \in 1..Len(calls) : Body(n)
    \/ \E n \in 1..Len(calls) : Release(n)
    \/ \E n \in 1..Len(calls) : Resume(n)

FairUpdateSpec == Init /\ [][NextUpdate]_vars /\ WF_vars(Progress)

\* Runs of every kind of operation, each on the default session.
DefaultOps == {op \in Ops : op.sid = Undefined}

IssueAny(op) ==
    /\ Len(calls) < MaxCalls
    /\ Start(op)

NextFair ==
    \/ \E op \in DefaultOps : IssueAny(op)
    \/ \E n \in 1..Len(calls) : Acquire(n)
    \/ \E n \in 1..Len(calls) : Body(n)
    \/ \E n \in 1..Len(calls) : Release(n)
    \/ \E n \in 1..Len(calls) : Resume(n)

FairSpec == Init /\ [][NextFair]_vars /\ WF_vars(Progress)

-----------------------------------------------------------------------------
(* What the cache and a Map hold, by value: for every session id whether   *)
(* the Map has the key and the sequence stored under it.                   *)

ToolsViewOf(ms, as, m) ==
    [s \in SessionIds |->
        IF m = 0 \/ ms[m][s] = 0
        THEN [present |-> FALSE, seq |-> <<>>]
        ELSE [present |-> TRUE, seq |-> as[ms[m][s]]]]

ToolsView == ToolsViewOf(maps, arrs, tools)

\* Whether the tools Map of the cache holds key s.
HasSession(s) == tools # 0 /\ maps[tools][s] # 0

\* No object of the heap changed (new ones may have been made).
HeapKept ==
    /\ SubSeq(maps', 1, Len(maps)) = maps
    /\ SubSeq(arrs', 1, Len(arrs)) = arrs

Issued == 1..Len(calls)
Settled(n) == calls[n].pc = "done"

\* The step is the body of call n.
BodyStep(n) == calls[n].pc = "locked" /\ calls'[n].pc = "ran"
\* The step is the continuation of call n.
ResumeStep(n) == calls[n].pc = "released" /\ calls'[n].pc = "done"
\* The step is a caller's mutation of the array call n returned.
MutateStep(n) ==
    /\ mutations' # mutations
    /\ calls[n].retArr # 0
    /\ arrs'[calls[n].retArr] # arrs[calls[n].retArr]

-----------------------------------------------------------------------------
\* The sequence the session held before the run's first call: the earlier
\* call's item in the default session when the run starts from Used (its
\* array <<EarlierItem>> stays on the heap), the empty sequence otherwise.
InitialTools(sid) ==
    IF sid = DEFAULT_TOOL_SESSION_ID
       /\ \E i \in 1..Len(arrs) : arrs[i] = <<EarlierItem>>
    THEN <<EarlierItem>> ELSE <<>>

\* C1: no lost updates.  When N concurrent updateToolsForSession(sid, tools =>
\* [...tools, item_n]) calls on one session have all settled, whatever the
\* interleaving, the session's sequence has the initial length plus N and
\* holds each of the N items exactly once.
C1_NoLostUpdates ==
    (calls # <<>> /\ \A n \in Issued : Settled(n)) =>
        LET sid == calls[1].resolved
            s == ToolsView[sid].seq
        IN  /\ Len(s) = Len(InitialTools(sid)) + Len(calls)
            /\ \A n \in Issued :
                  Cardinality({i \in 1..Len(s) : s[i] = Descriptor(n)}) = 1

\* MaxAppends appending calls, issued before the first one ran, have settled
\* on a session that was not empty.
C1_Witness ==
    /\ Len(calls) = MaxAppends
    /\ \A n \in Issued : Settled(n) /\ calls[n].status = "fulfilled"
    /\ InitialTools(calls[1].resolved) # <<>>
    /\ Len(ToolsView[calls[1].resolved].seq) = MaxAppends + 1

\* C2: a throwing updateFn does not keep the gate.  Once a call whose updateFn
\* threw has left Mutex.lock, the gate is free or held by another call that is
\* in its critical section; and under fair scheduling the calls issued before
\* and after the failing one all settle.
C2_GateFreeAfterThrow ==
    \A n \in Issued :
        (calls[n].threw /\ calls[n].pc \in {"released", "done"}) =>
            /\ mutexHolder # n
            /\ mutexHolder # 0 => calls[mutexHolder].pc \in {"locked", "ran"}

C2_ThrowReleasesGate ==
    /\ []C2_GateFreeAfterThrow
    /\ (\E n \in Issued : calls[n].threw) ~> (\A m \in Issued : Settled(m))

\* A call settled although the call before it threw in its updateFn.
C2_Witness ==
    \E n \in Issued : \E m \in Issued :
        /\ n < m
        /\ calls[n].threw
        /\ calls[m].pc = "done"
        /\ calls[m].status = "fulfilled"

\* C3: a throwing updateFn changes nothing and rejects its caller.  The body
\* of a call whose updateFn throws leaves allowedOrgs, the tools Map the cache
\* holds and every sequence stored in it as they were, also when updateFn
\* pushed onto the array it was given; and the call settles rejected, with
\* nothing returned.
C3_BodyThatThrows ==
    \A n \in Issued :
        (BodyStep(n) /\ calls'[n].threw) =>
            /\ allowedOrgs' = allowedOrgs
            /\ tools' = tools
            /\ ToolsView' = ToolsView

C3_Rejected ==
    \A n \in Issued :
        Settled(n) =>
            /\ calls[n].status = (IF calls[n].threw THEN "rejected" ELSE "fulfilled")
            /\ calls[n].threw => calls[n].retArr = 0

C3_ThrowLeavesCacheUnchanged == []C3_Rejected /\ [][C3_BodyThatThrows]_vars

\* An updateToolsForSession on a session that holds an item was rejected after
\* its updateFn pushed onto the array it was given.
C3_Witness ==
    \E n \in Issued :
        /\ calls[n].kind = "updateToolsForSession"
        /\ calls[n].fn = "pushThrow"
        /\ calls[n].status = "rejected"
        /\ ToolsView[calls[n].resolved].seq # <<>>

\* C4: the gate is served first come, first served.  Calls are numbered in
\* the order they were issued: bodies run in that order, a call enters its
\* critical section only when every earlier call has left its own, and so the
\* items appended to a session lie in it in the order their calls were issued.
C4_FIFO ==
    /\ \A i \in 1..Len(executed) : executed[i] = i
    /\ \A a \in Issued : \A b \in Issued :
          (a < b /\ calls[b].pc # "waiting") => calls[a].pc \in {"released", "done"}
    /\ \A s \in SessionIds :
          LET q == ToolsView[s].seq
          IN  \A i \in 1..Len(q) : \A j \in 1..Len(q) :
                 (i < j /\ q[i][1] = "tool" /\ q[j][1] = "tool") => q[i][2] < q[j][2]

\* Two appending calls on one session were both waiting at the gate and both
\* ran.
C4_Witness ==
    /\ Len(executed) = 2
    /\ \E s \in SessionIds :
          LET q == ToolsView[s].seq
          IN  Len(q) >= 2 /\ q[Len(q) - 1] = Descriptor(1) /\ q[Len(q)] = Descriptor(2)

\* C5: one instance.  The constructor runs at most once, every getInstance(),
\* a caller's or the one inside safeGet / safeSet / safeUpdate, returns that
\* one instance, and no step but the body of a call changes allowedOrgs or
\* tools once the instance exists.
C5_OneInstance ==
    /\ constructed <= 1
    /\ Cardinality(got) <= 1
    /\ \A n \in Issued : calls[n].cache = instance /\ calls[n].cache # 0

C5_NeverReset ==
    (instance # 0 /\ executed' = executed) =>
        /\ instance' = instance
        /\ allowedOrgs' = allowedOrgs
        /\ tools' = tools
        /\ HeapKept \/ ToolsView' = ToolsView

C5_Singleton == []C5_OneInstance /\ [][C5_NeverReset]_vars

\* A call was issued, and so called getInstance(), after an earlier call had
\* changed allowedOrgs and tools from their initial values.
C5_Witness ==
    /\ Len(calls) = 2
    /\ Len(executed) = 1
    /\ calls[1].kind = "safeSet"
    /\ (allowedOrgs # {} \/ ToolsView["a"].present)
    /\ instance \in got

\* The calls that name a session.
NamesSession(n) == calls[n].kind \in SessionKinds \cup {"updateToolsForSession"}

\* C6 as claimed: resolveToolSessionId(sessionId) is sessionId when it is
\* given and not empty, and "default" when it is absent or the empty string.
C6_EmptyResolvesToDefault ==
    \A n \in Issued :
        NamesSession(n) =>
            calls[n].resolved = (IF calls[n].sid \in {Undefined, ""}
                                 THEN DEFAULT_TOOL_SESSION_ID ELSE calls[n].sid)

\* C6 as amended: resolveToolSessionId(sessionId) is sessionId whenever it is
\* given, the empty string included, and "default" only when it is absent;
\* the result depends on the argument alone, in every state of the cache.
C6_OnlyAbsentResolvesToDefault ==
    \A n \in Issued :
        NamesSession(n) =>
            calls[n].resolved = (IF calls[n].sid = Undefined
                                 THEN DEFAULT_TOOL_SESSION_ID ELSE calls[n].sid)

\* One call named the empty string and one named "a", and each kept its name.
C6_Witness ==
    /\ \E n \in Issued : calls[n].sid = "" /\ calls[n].resolved = ""
    /\ \E n \in Issued : calls[n].sid = "a" /\ calls[n].resolved = "a"

\* C7: getToolsForSession returns a copy.  A caller that pushes onto, pops
\* from or assigns a slot of the array getToolsForSession returned changes no
\* sequence of any Map: not the cache's and not a Map a later or pending
\* getToolsForSession reads from.
C7_MutationOfCopy ==
    \A n \in Issued :
        (MutateStep(n) /\ calls[n].kind = "getToolsForSession") =>
            /\ maps' = maps
            /\ \A m \in 1..Len(maps) :
                  ToolsViewOf(maps', arrs', m) = ToolsViewOf(maps, arrs, m)

C7_GetToolsReturnsCopy == [][C7_MutationOfCopy]_vars

\* The array getToolsForSession returned for a session that holds an item
\* was mutated by its caller, and the session holds what it held.
C7_Witness ==
    \E n \in Issued :
        /\ calls[n].kind = "getToolsForSession"
        /\ Settled(n)
        /\ mutations > 0
        /\ ToolsView[calls[n].resolved].seq = <<EarlierItem>>
        /\ arrs[calls[n].retArr] # <<EarlierItem>>

\* C8: updateToolsForSession returns a copy.  A caller that mutates the array
\* updateToolsForSession returned changes no sequence the cache stores.
C8_MutationOfResult ==
    \A n \in Issued :
        (MutateStep(n) /\ calls[n].kind = "updateToolsForSession") =>
            ToolsView' = ToolsView

C8_UpdateReturnsCopy == [][C8_MutationOfResult]_vars

\* The calls that hold a tools Map they read with safeGet('tools').
HoldsSnapshot(k) ==
    /\ calls[k].kind = "safeGet"
    /\ calls[k].key = "tools"
    /\ calls[k].pc \in {"ran", "released", "done"}

\* C9: copy-on-write isolation.  The body of ensureToolSession,
\* resetToolsForSession, deleteToolSession or updateToolsForSession leaves
\* every tools Map a caller read with safeGet('tools') with the keys and the
\* sequences it had.
C9_WriteLeavesSnapshots ==
    \A n \in Issued :
        (BodyStep(n) /\ calls[n].kind \in WriteKinds \cup {"updateToolsForSession"}) =>
            \A k \in Issued :
                HoldsSnapshot(k) =>
                    ToolsViewOf(maps', arrs', calls[k].retMap)
                        = ToolsViewOf(maps, arrs, calls[k].retMap)

C9_SnapshotIsolation == [][C9_WriteLeavesSnapshots]_vars

\* A caller holds a tools Map that is no longer what the cache holds: a
\* session operation that ran after the read changed the cache.
C9_Witness ==
    \E k \in Issued : \E n \in Issued :
        /\ HoldsSnapshot(k)
        /\ k < n
        /\ calls[n].kind \in WriteKinds \cup {"updateToolsForSession"}
        /\ calls[n].pc \in {"ran", "released", "done"}
        /\ ToolsViewOf(maps, arrs, calls[k].retMap) # ToolsView
        /\ ToolsViewOf(maps, arrs, calls[k].retMap)[DEFAULT_TOOL_SESSION_ID].seq
               = <<EarlierItem>>

\* The steps of getToolsForSession after the instance exists: the issue, the
\* body and the continuation.
GetToolsStep ==
    \/ /\ instance # 0
       /\ Len(calls') = Len(calls) + 1
       /\ calls'[Len(calls')].kind = "getToolsForSession"
    \/ \E n \in Issued :
          /\ calls[n].kind = "getToolsForSession"
          /\ BodyStep(n) \/ ResumeStep(n)

\* getToolsForSession changes neither the keys nor the sequences of the tools
\* mapping, and returns the empty sequence for a session the Map it read does
\* not hold.
C10_GetToolsReadsOnly ==
    /\ GetToolsStep =>
          (tools' = tools /\ maps' = maps /\ (HeapKept \/ ToolsView' = ToolsView))
    /\ \A n \in Issued :
          (ResumeStep(n) /\ calls[n].kind = "getToolsForSession"
             /\ ~ToolsViewOf(maps, arrs, calls[n].retMap)[calls[n].resolved].present)
          => arrs'[calls'[n].retArr] = <<>>

\* Every step that adds a key to the tools mapping of the instance is the
\* body of a call of one of `kinds`.
KeysAddedOnlyBy(kinds) ==
    \A s \in SessionIds :
        (instance # 0 /\ ~HasSession(s) /\ HasSession(s)') =>
            \E n \in Issued : BodyStep(n) /\ calls[n].kind \in kinds

\* C10 as claimed: getToolsForSession creates no session entry, and only
\* ensureToolSession, resetToolsForSession and updateToolsForSession ever add
\* a key to the tools mapping.
C10_OnlySessionOperationsAddKeys ==
    [][/\ C10_GetToolsReadsOnly
       /\ KeysAddedOnlyBy({"ensureToolSession", "resetToolsForSession",
                           "updateToolsForSession"})]_vars

\* C10 as amended: getToolsForSession creates no session entry; the
\* operations that add a key to the tools mapping are ensureToolSession,
\* resetToolsForSession and updateToolsForSession and, beside them, a direct
\* safeSet or safeUpdate of 'tools'.
C10_GetToolsCreatesNoEntry ==
    [][/\ C10_GetToolsReadsOnly
       /\ KeysAddedOnlyBy({"ensureToolSession", "resetToolsForSession",
                           "updateToolsForSession", "safeSet", "safeUpdate"})]_vars

\* getToolsForSession("a") settled with the empty sequence while the cache
\* held no session "a", and holds none now.
C10_Witness ==
    \E n \in Issued :
        /\ calls[n].kind = "getToolsForSession"
        /\ calls[n].resolved = "a"
        /\ Settled(n)
        /\ arrs[calls[n].retArr] = <<>>
        /\ ~ToolsView["a"].present
        /\ Len(executed) = 2

-----------------------------------------------------------------------------
\* The tools mapping with session s present and holding q.
WithSession(view, s, q) == [view EXCEPT ![s] = [present |-> TRUE, seq |-> q]]
\* The tools mapping without session s.
WithoutSession(view, s) == [view EXCEPT ![s] = [present |-> FALSE, seq |-> <<>>]]

\* C11: ensureToolSession is idempotent and non-destructive.  Its body, on a
\* session that has an entry, stores back the very Map the cache held and
\* changes no sequence; on a session that has none, it stores the old mapping
\* plus an empty sequence for that session; and the second of two
\* ensureToolSession calls in a row on one session changes nothing.
C11_EnsureBody ==
    \A n \in Issued :
        (BodyStep(n) /\ calls[n].kind = "ensureToolSession") =>
            LET s == calls[n].resolved
            IN  /\ allowedOrgs' = allowedOrgs
                /\ HasSession(s) =>
                      /\ tools' = tools
                      /\ calls'[n].retMap = tools
                      /\ ToolsView' = ToolsView
                /\ ~HasSession(s) =>
                      /\ tools' # tools
                      /\ ToolsView' = WithSession(ToolsView, s, <<>>)
                /\ (n > 1 /\ calls[n - 1].kind = "ensureToolSession"
                          /\ calls[n - 1].resolved = s) =>
                      /\ tools' = tools
                      /\ ToolsView' = ToolsView

C11_EnsureIdempotent == [][C11_EnsureBody]_vars

\* ensureToolSession() ran twice in a row on the default session, which held
\* an item, and the session holds it still.
C11_Witness ==
    /\ Len(executed) = 2
    /\ \A n \in {1, 2} :
          calls[n].kind = "ensureToolSession"
              /\ calls[n].resolved = DEFAULT_TOOL_SESSION_ID
    /\ ToolsView[DEFAULT_TOOL_SESSION_ID].seq = <<EarlierItem>>

\* Whether no call between n and m stored a sequence for session s with
\* updateToolsForSession.
NoUpdateBetween(n, m, s) ==
    \A k \in Issued :
        (n < k /\ k < m) =>
            ~(calls[k].kind = "updateToolsForSession" /\ calls[k].resolved = s
                /\ ~calls[k].threw)

\* What a settled getToolsForSession returned.
ReturnedTools(m) == arrs[calls[m].retArr]

\* C12: delete semantics.  The body of deleteToolSession(s) leaves the
\* resolved session absent: on an absent session it leaves tools unchanged,
\* otherwise it stores the old mapping without that entry.  An
\* ensureToolSession(s) right after it creates the entry with the empty
\* sequence, and every getToolsForSession(s) after the delete, with or without
\* an ensure between them and with no update of s between them, returns the
\* empty sequence: what the session held before the delete never comes back.
C12_DeleteBody ==
    \A n \in Issued :
        /\ (BodyStep(n) /\ calls[n].kind = "deleteToolSession") =>
              LET s == calls[n].resolved
              IN  /\ allowedOrgs' = allowedOrgs
                  /\ ~HasSession(s)'
                  /\ ~HasSession(s) => (tools' = tools /\ ToolsView' = ToolsView)
                  /\ HasSession(s) => ToolsView' = WithoutSession(ToolsView, s)
        /\ (BodyStep(n) /\ calls[n].kind = "ensureToolSession" /\ n > 1
               /\ calls[n - 1].kind = "deleteToolSession"
               /\ calls[n - 1].resolved = calls[n].resolved) =>
              ToolsView' = WithSession(ToolsView, calls[n].resolved, <<>>)

C12_AfterDelete ==
    \A n \in Issued : \A m \in Issued :
        (/\ n < m
         /\ calls[n].kind = "deleteToolSession"
         /\ calls[m].kind = "getToolsForSession"
         /\ calls[m].resolved = calls[n].resolved
         /\ Settled(m)
         /\ NoUpdateBetween(n, m, calls[n].resolved)) =>
            /\ calls[m].status = "fulfilled"
            /\ ReturnedTools(m) = <<>>

C12_DeleteSemantics == []C12_AfterDelete /\ [][C12_DeleteBody]_vars

\* The default session held an item; then deleteToolSession(),
\* ensureToolSession() and getToolsForSession() ran one after the other, and
\* the last returned the empty sequence of an entry that is present.
C12_Witness ==
    /\ Len(calls) = 3
    /\ InitialTools(DEFAULT_TOOL_SESSION_ID) = <<EarlierItem>>
    /\ \A n \in Issued : calls[n].resolved = DEFAULT_TOOL_SESSION_ID /\ Settled(n)
    /\ calls[1].kind = "deleteToolSession"
    /\ calls[2].kind = "ensureToolSession"
    /\ calls[3].kind = "getToolsForSession"
    /\ ReturnedTools(3) = <<>>
    /\ ToolsView[DEFAULT_TOOL_SESSION_ID] = [present |-> TRUE, seq |-> <<>>]

\* C13: reset semantics.  The body of resetToolsForSession(s) stores, whatever
\* the session held and whether it had an entry, a new mapping that is the old
\* one with the resolved session present and empty; so after
\* updateToolsForSession(s, f), resetToolsForSession(s) and
\* getToolsForSession(s), called one after the other, the last returns the
\* empty sequence, whatever f returned and also when f threw.
C13_ResetBody ==
    \A n \in Issued :
        (BodyStep(n) /\ calls[n].kind = "resetToolsForSession") =>
            /\ allowedOrgs' = allowedOrgs
            /\ tools' # tools
            /\ ~calls'[n].threw
            /\ ToolsView' = WithSession(ToolsView, calls[n].resolved, <<>>)

C13_UpdateResetGet ==
    \A n \in Issued :
        (/\ n + 2 <= Len(calls)
         /\ calls[n].kind = "updateToolsForSession"
         /\ calls[n + 1].kind = "resetToolsForSession"
         /\ calls[n + 2].kind = "getToolsForSession"
         /\ calls[n + 1].resolved = calls[n].resolved
         /\ calls[n + 2].resolved = calls[n].resolved
         /\ Settled(n + 2)) =>
            /\ calls[n + 2].status = "fulfilled"
            /\ ReturnedTools(n + 2) = <<>>

C13_ResetSemantics == []C13_UpdateResetGet /\ [][C13_ResetBody]_vars

\* updateToolsForSession() returned two items for the default session; then
\* resetToolsForSession() and getToolsForSession() ran, and the last returned
\* the empty sequence.
C13_Witness ==
    /\ Len(calls) = 3
    /\ \A n \in Issued : calls[n].resolved = DEFAULT_TOOL_SESSION_ID /\ Settled(n)
    /\ calls[1].kind = "updateToolsForSession"
    /\ calls[1].status = "fulfilled"
    /\ ReturnedTools(1) = <<EarlierItem, Descriptor(1)>>
    /\ calls[2].kind = "resetToolsForSession"
    /\ calls[3].kind = "getToolsForSession"
    /\ ReturnedTools(3) = <<>>

\* The update call n has run its body without a throw and has not returned.
HoldsUpdatedTools(n) ==
    /\ calls[n].kind = "updateToolsForSession"
    /\ calls[n].pc \in {"ran", "released"}
    /\ ~calls[n].threw

\* C14: updateToolsForSession(s, f) applies f to what the resolved session
\* holds when the body runs under the gate (the empty sequence if it has no
\* entry), whatever it held when the call was issued; it stores f's result as
\* the session's sequence, creating the entry if there was none; and the
\* sequence the call returns is the one its body stored: the body leaves it
\* in updatedTools, no step changes it before the call returns, and the
\* continuation returns updatedTools.
C14_UpdateStep ==
    \A n \in Issued :
        /\ (BodyStep(n) /\ calls[n].kind = "updateToolsForSession"
               /\ ~calls'[n].threw) =>
              LET s == calls[n].resolved
                  stored == Append(ToolsView[s].seq, calls[n].item)
              IN  /\ calls[n].fn = "append"
                  /\ ToolsView' = WithSession(ToolsView, s, stored)
                  /\ arrs'[calls'[n].updatedTools] = stored
                  /\ allowedOrgs' = allowedOrgs
        /\ HoldsUpdatedTools(n) =>
              arrs'[calls[n].updatedTools] = arrs[calls[n].updatedTools]
        /\ (ResumeStep(n) /\ HoldsUpdatedTools(n)) =>
              /\ calls'[n].status = "fulfilled"
              /\ calls'[n].retArr = calls[n].updatedTools

C14_UpdateAppliesToCurrent == [][C14_UpdateStep]_vars

\* Two updateToolsForSession() calls settled on the default session, which
\* held an item: the second returned that item, the first call's and its own.
C14_Witness ==
    /\ Len(calls) = 2
    /\ \A n \in Issued :
          /\ calls[n].kind = "updateToolsForSession"
          /\ calls[n].resolved = DEFAULT_TOOL_SESSION_ID
          /\ Settled(n)
          /\ calls[n].status = "fulfilled"
    /\ ReturnedTools(2) = <<EarlierItem, Descriptor(1), Descriptor(2)>>
    /\ ToolsView[DEFAULT_TOOL_SESSION_ID].seq = ReturnedTools(2)

\* The step is the body of a direct safeSet or safeUpdate of 'tools'.
RawToolsWrite ==
    \E n \in Issued :
        /\ BodyStep(n)
        /\ calls[n].kind \in {"safeSet", "safeUpdate"}
        /\ calls[n].key = "tools"

\* The step is the body of a call of one of `kinds` that resolves to the
\* default session and does not throw.
DefaultSessionStep(kinds) ==
    \E n \in Issued :
        /\ BodyStep(n)
        /\ calls[n].kind \in kinds
        /\ calls[n].resolved = DEFAULT_TOOL_SESSION_ID
        /\ ~calls'[n].threw

\* C15: the default session.  The step that constructs the instance leaves
\* tools as exactly {"default" -> empty sequence} and allowedOrgs empty.  No
\* step but a direct safeSet / safeUpdate of 'tools' changes whether the
\* default entry is present, except that the body of a deleteToolSession
\* resolving to "default" removes it, and the body of an ensureToolSession,
\* resetToolsForSession or updateToolsForSession resolving to "default" puts
\* it back.
C15_DefaultStep ==
    /\ (instance = 0 /\ instance' # 0) =>
          /\ allowedOrgs' = {}
          /\ ToolsView' = WithSession([s \in SessionIds |->
                                          [present |-> FALSE, seq |-> <<>>]],
                                      DEFAULT_TOOL_SESSION_ID, <<>>)
    /\ (instance # 0 /\ ~RawToolsWrite) =>
          /\ (HasSession(DEFAULT_TOOL_SESSION_ID)
                 /\ ~HasSession(DEFAULT_TOOL_SESSION_ID)') =>
                DefaultSessionStep({"deleteToolSession"})
          /\ (~HasSession(DEFAULT_TOOL_SESSION_ID)
                 /\ HasSession(DEFAULT_TOOL_SESSION_ID)') =>
                DefaultSessionStep({"ensureToolSession", "resetToolsForSession",
                                    "updateToolsForSession"})
    /\ DefaultSessionStep({"deleteToolSession"}) =>
          ~HasSession(DEFAULT_TOOL_SESSION_ID)'
    /\ DefaultSessionStep({"ensureToolSession", "resetToolsForSession",
                           "updateToolsForSession"}) =>
          HasSession(DEFAULT_TOOL_SESSION_ID)'

C15_DefaultSession == [][C15_DefaultStep]_vars

\* The instance was constructed in this run; deleteToolSession() removed the
\* default entry and the ensureToolSession() after it put it back, empty.
C15_Witness ==
    /\ Len(executed) = 2
    /\ calls[1].kind = "deleteToolSession"
    /\ calls[1].resolved = DEFAULT_TOOL_SESSION_ID
    /\ calls[2].kind = "ensureToolSession"
    /\ calls[2].resolved = DEFAULT_TOOL_SESSION_ID
    /\ InitialTools(DEFAULT_TOOL_SESSION_ID) = <<>>
    /\ ToolsView[DEFAULT_TOOL_SESSION_ID] = [present |-> TRUE, seq |-> <<>>]

\* Whether the body of call n stored a value under key, and the value: the
\* argument of safeSet, the result of updateFn for safeUpdate.
Wrote(n, key) ==
    /\ calls[n].key = key
    /\ \/ calls[n].kind = "safeSet"
       \/ UsesSafeUpdate(calls[n].kind) /\ ~calls[n].threw

WrittenOrgs(n) ==
    IF calls[n].kind = "safeSet" THEN calls[n].argOrgs ELSE calls[n].retOrgs
WrittenMap(n) ==
    IF calls[n].kind = "safeSet" THEN calls[n].argMap ELSE calls[n].retMap

\* The positions in gate order, before position i, of the writes to key.
WritesBefore(i, key) == {j \in 1..(i - 1) : Wrote(executed[j], key)}

Latest(positions) == CHOOSE j \in positions : \A k \in positions : k <= j

\* C16: writes are visible to all later readers.  A safeGet(key), a caller's
\* or the one inside getToolsForSession, returns what the latest safeSet or
\* safeUpdate on that key before it in gate order stored: the very Set value
\* or Map object; and with no such write, the initial value: the empty set,
\* or the tools mapping the run started with.
C16_ReadsLatestWrite ==
    \A i \in 1..Len(executed) :
        LET n == executed[i]
            before == WritesBefore(i, calls[n].key)
        IN  UsesSafeGet(calls[n].kind) =>
                /\ ~calls[n].threw
                /\ Settled(n) => calls[n].status = "fulfilled"
                /\ calls[n].key = "allowedOrgs" =>
                      calls[n].retOrgs = (IF before = {} THEN {}
                                          ELSE WrittenOrgs(executed[Latest(before)]))
                /\ (calls[n].key = "tools" /\ before # {}) =>
                      calls[n].retMap = WrittenMap(executed[Latest(before)])
                /\ (calls[n].key = "tools" /\ before = {}) =>
                      ToolsViewOf(maps, arrs, calls[n].retMap)
                          = WithSession([s \in SessionIds |->
                                            [present |-> FALSE, seq |-> <<>>]],
                                        DEFAULT_TOOL_SESSION_ID,
                                        InitialTools(DEFAULT_TOOL_SESSION_ID))

\* safeSet('allowedOrgs', new Set([Org])) and then safeGet('allowedOrgs') ran,
\* and the read settled with a set holding exactly Org.
C16_Witness ==
    /\ executed = <<1, 2>>
    /\ calls[1].kind = "safeSet" /\ calls[1].key = "allowedOrgs"
    /\ calls[2].kind = "safeGet" /\ calls[2].key = "allowedOrgs"
    /\ Settled(2)
    /\ calls[2].status = "fulfilled"
    /\ calls[2].retOrgs = {Org}

\* No call is pending: every call issued has run its body and has settled.
NonePending ==
    \A n \in Issued : Settled(n) /\ \E i \in 1..Len(executed) : executed[i] = n

GateFree == mutexHolder = 0 /\ mutexQueue = <<>>

\* C17: no operation blocks for ever.  Under fair scheduling, with updateFns
\* that return or throw, every safeGet, safeSet, safeUpdate and session
\* operation issued gets the gate, runs and settles: again and again the run
\* is in a state where no call is pending; and whenever no call is pending
\* the gate is free.
C17_FreeWhenIdle == NonePending => GateFree

C17_NoOperationBlocks == []C17_FreeWhenIdle /\ []<>NonePending

\* A safeSet and a deleteToolSession, the second issued while the first had
\* not settled, have both settled and the gate is free.
C17_Witness ==
    /\ Len(calls) = 2
    /\ calls[1].kind = "safeSet"
    /\ calls[2].kind = "deleteToolSession"
    /\ NonePending
    /\ GateFree

\* The calls inside Mutex.lock's critical section: granted the gate and not
\* yet through the finally that releases it.
InCriticalSection == {n \in Issued : calls[n].pc \in {"locked", "ran"}}

\* C18: mutual exclusion.  At most one call is in its critical section,
\* whatever the keys of the calls, and it is the holder of the one gate; the
\* body of a call runs only while the call holds the gate, in one step from
\* its read to its write, and changes what no other call holds.
C18_OneAtATime ==
    /\ Cardinality(InCriticalSection) <= 1
    /\ \A n \in InCriticalSection : mutexHolder = n
    /\ mutexHolder # 0 => mutexHolder \in InCriticalSection

C18_BodyHoldsGate ==
    \A n \in Issued :
        BodyStep(n) =>
            /\ mutexHolder = n
            /\ InCriticalSection = {n}
            /\ \A m \in Issued \ {n} : calls'[m] = calls[m]

C18_MutualExclusion == []C18_OneAtATime /\ [][C18_BodyHoldsGate]_vars

\* An operation on allowedOrgs is in its critical section while an operation
\* on tools waits at the gate.
C18_Witness ==
    /\ Len(calls) = 2
    /\ calls[1].key = "allowedOrgs"
    /\ calls[1].pc = "locked"
    /\ calls[2].key = "tools"
    /\ calls[2].pc = "waiting"
    /\ mutexQueue = <<2>>

\* C19: the frame of the session operations.  The body of ensureToolSession,
\* resetToolsForSession, deleteToolSession or updateToolsForSession on the
\* resolved session s, whether or not its updateFn throws, leaves allowedOrgs
\* as it was and leaves every session other than s present or absent as it
\* was, with the sequence it had: at most the entry of s changes.
C19_OtherSessionsKept ==
    \A n \in Issued :
        (BodyStep(n) /\ calls[n].kind \in WriteKinds \cup {"updateToolsForSession"}) =>
            /\ allowedOrgs' = allowedOrgs
            /\ \A t \in SessionIds \ {calls[n].resolved} :
                  ToolsView'[t] = ToolsView[t]

C19_SessionFrame == [][C19_OtherSessionsKept]_vars

\* allowedOrgs holds an org and the default session an item, and a session
\* operation on the session "" has run and changed that session's entry.
C19_Witness ==
    /\ Len(executed) = 2
    /\ calls[1].kind = "safeSet"
    /\ allowedOrgs = {Org}
    /\ calls[2].kind = "updateToolsForSession"
    /\ calls[2].resolved = ""
    /\ ToolsView[""] = [present |-> TRUE, seq |-> <<Descriptor(2)>>]
    /\ ToolsView[DEFAULT_TOOL_SESSION_ID].seq = <<EarlierItem>>

\* The getToolsForSession call n has read the tools Map under the gate and
\* has not yet looked its session up.
AwaitsLookup(n) ==
    /\ calls[n].kind = "getToolsForSession"
    /\ calls[n].pc \in {"ran", "released"}

\* What the Map call n read holds for the session call n resolved.
ReadEntry(ms, as, n) == ToolsViewOf(ms, as, calls[n].retMap)[calls[n].resolved]

\* C20: getToolsForSession is atomic although its lookup runs outside the
\* gate.  Its body reads the Map the cache holds at that moment; whatever
\* ensure, reset, delete and update operations run and settle before the
\* lookup, the entry of the resolved session in the Map it read stays what
\* the session held when the body ran; and the continuation returns that
\* sequence, the empty one if the session was absent then.
C20_ReadThenLookup ==
    \A n \in Issued :
        /\ (BodyStep(n) /\ calls[n].kind = "getToolsForSession") =>
              /\ calls'[n].retMap = tools
              /\ ToolsViewOf(maps', arrs', calls'[n].retMap) = ToolsView
        /\ AwaitsLookup(n) => ReadEntry(maps', arrs', n) = ReadEntry(maps, arrs, n)
        /\ (ResumeStep(n) /\ AwaitsLookup(n)) =>
              /\ calls'[n].status = "fulfilled"
              /\ arrs'[calls'[n].retArr] = ReadEntry(maps, arrs, n).seq

C20_GetToolsIsAtomic == [][C20_ReadThenLookup]_vars

\* getToolsForSession() read the default session while it held an item; a
\* resetToolsForSession() then ran and settled before the lookup (the array
\* it stored is older than the one getToolsForSession returned); and
\* getToolsForSession returned the item, while the session is empty now.
C20_Witness ==
    /\ Len(calls) = 2
    /\ calls[1].kind = "getToolsForSession"
    /\ calls[1].resolved = DEFAULT_TOOL_SESSION_ID
    /\ calls[2].kind = "resetToolsForSession"
    /\ calls[2].resolved = DEFAULT_TOOL_SESSION_ID
    /\ Settled(1) /\ Settled(2)
    /\ ToolsView[DEFAULT_TOOL_SESSION_ID] = [present |-> TRUE, seq |-> <<>>]
    /\ maps[tools][DEFAULT_TOOL_SESSION_ID] < calls[1].retArr
    /\ ReturnedTools(1) = <<EarlierItem>>

=============================================================================
